---- MODULE Spec2Model ----
(***************************************************************************)
(* Consensus engines of blockchain-from-scratch (chapter c3_consensus):    *)
(* DictatorConsensus, SimplePoa, PoaRoundRobinByHeight,                    *)
(* PoaRoundRobinBySlot, EvenOnly<Inner> and AlternatingPowPoa.             *)
(*                                                                         *)
(* Every engine operation is a pure function of the engine configuration   *)
(* and its arguments.  Each is an operator that returns the outcome of the *)
(* call: a returned value, or a panic (unwrap/expect on None, remainder by *)
(* zero, arithmetic overflow with overflow checks on).  An action calls    *)
(* one operation on inputs drawn from bounded sets and records the call in *)
(* `op`, and the calls made on wrapped engines in `calls`.                 *)
(*                                                                         *)
(* The engines keep nothing between calls, so a behaviour is one           *)
(* construction followed by one call: a call is made while no call has     *)
(* been recorded yet (Idle).                                               *)
(*                                                                         *)
(* u64 is scaled down to 0..MaxU64; usize has the width of u64 (64-bit     *)
(* target), so `as usize` is the identity.                                 *)
(*                                                                         *)
(* The fork-choice rules of c2_blockchain/p5_fork_choice.rs are modelled   *)
(* the same way under their own specification, SpecFork: one call of       *)
(* first_chain_is_better or best_chain, recorded in `fork`.                *)
(*                                                                         *)
(* The digital cash system of c1_state_machine/p5_digital_cash.rs has its  *)
(* own specification, SpecCash: `cash` is the State (the circulating bills *)
(* and next_serial), it starts as State::new() and every step applies      *)
(* next_state to it with a Mint or a Transfer, recorded in `tx` together   *)
(* with the state it started from.                                         *)
(*                                                                         *)
(* The governance system of c1_state_machine/p6_open_ended.rs has its own  *)
(* specification, SpecGov: `gov` is the GovernanceState (proposals, votes  *)
(* and time_units_passed), it starts as GovernanceState::new() and every   *)
(* step applies next_state to it with one GovernanceAction, recorded in    *)
(* `gtx` together with the state it started from.                          *)
(***************************************************************************)
EXTENDS Integers, Sequences, FiniteSets, TLC

\* ---------------------------------------------------------------- bounds
MaxU64 == 5          \* the model's u64::MAX
MaxHeight == 3       \* heights drawn for headers: 0..MaxHeight
MaxAuth == 2         \* longest authority list drawn at construction
MaxRoot == 1         \* state_root drawn from 0..MaxRoot
ThresholdDivisor == 2 \* THRESHOLD is u64::MAX / 100 in the code: 100, scaled
MaxChainLen == 4     \* longest chain handed to a fork-choice rule
MaxCandidates == 2   \* longest candidate list handed to best_chain
MaxMints == 2        \* bills minted before a Transfer is applied
MaxProposals == 2    \* proposals added to the governance state
MaxVotes == 2        \* votes recorded in the governance state
MaxTime == 2         \* time units that pass in the governance state

\* ---------------------------------------------------------------- types
ConsensusAuthority == {"Alice", "Bob", "Charlie"}

U64 == 0..MaxU64

\* The unit digest `()` of a partial header.
Unit == "()"

\* SlotDigest { slot, signature }
SlotDigest == [slot : U64, signature : ConsensusAuthority]

\* enum PowOrPoaDigest { Pow(u64), Poa(ConsensusAuthority) }; the field of
\* the other variant is a filler.
Pow_(nonce) == [tag |-> "Pow", nonce |-> nonce, authority |-> Unit]
Poa_(authority) == [tag |-> "Poa", nonce |-> 0, authority |-> authority]
PowOrPoaDigest == {Pow_(n) : n \in U64} \cup {Poa_(a) : a \in ConsensusAuthority}

\* Header<Digest> with the given digest
Header(parent, height, state_root, extrinsics_root, digest) ==
    [parent |-> parent, height |-> height, state_root |-> state_root,
     extrinsics_root |-> extrinsics_root, consensus_digest |-> digest]

\* Headers drawn as inputs, for a set of digests
Headers(Digests) ==
    [parent : {122}, height : 0..MaxHeight, state_root : 0..MaxRoot,
     extrinsics_root : {123}, consensus_digest : Digests]

\* Authority lists an engine can be constructed with
AuthorityLists == UNION {[1..n -> ConsensusAuthority] : n \in 0..MaxAuth}

\* ------------------------------------------------------------- outcomes
\* validate: a returned bool, or a panic
Returned(b) == [status |-> "returned", value |-> b]
Panicked == [status |-> "panicked", value |-> FALSE]

\* seal: Some(header), None, or a panic
NoHeader == Header(0, 0, 0, 0, Unit)
Some(h) == [status |-> "returned", some |-> TRUE, header |-> h]
None == [status |-> "returned", some |-> FALSE, header |-> NoHeader]
SealPanicked == [status |-> "panicked", some |-> FALSE, header |-> NoHeader]

\* A call made on a wrapped engine
InnerCall(kind, fn, parent_digest, header) ==
    [kind |-> kind, fn |-> fn, parent_digest |-> parent_digest, header |-> header]

\* -------------------------------------------------------------- state
VARIABLES
    engine,          \* the constructed engine: its kind and configuration
    overflow_checks, \* build profile: TRUE panics on overflow, FALSE wraps
    op,              \* the engine call made and its outcome
    calls,           \* calls that operation made on wrapped engines
    fork,            \* the fork-choice call made and its outcome
    cash,            \* digital cash: the State (bills, next_serial)
    tx,              \* digital cash: the last transition and its outcome
    gov,             \* governance: the GovernanceState
    gtx              \* governance: the last transition and its outcome

vars == <<engine, overflow_checks, op, calls, fork, cash, tx, gov, gtx>>

\* ------------------------------------------------- DictatorConsensus
\* Variant: genesis is exempt from the dictator test.
DictatorConsensus_validate_GenesisExempt(self, parent_digest, header) ==
    IF header.height = 0
    THEN Returned(TRUE)
    ELSE Returned(header.consensus_digest = self.dictator)

DictatorConsensus_validate(self, parent_digest, header) ==
    Returned(header.consensus_digest = self.dictator)

\* Variant: genesis is left unsealed.
DictatorConsensus_seal_GenesisUnsealed(self, parent_digest, partial_header) ==
    IF partial_header.height = 0
    THEN None
    ELSE Some(Header(partial_header.parent, partial_header.height,
                     partial_header.state_root,
                     partial_header.extrinsics_root, self.dictator))

\* Variant: the state_root of the partial header is not copied.
DictatorConsensus_seal_DropsStateRoot(self, parent_digest, partial_header) ==
    Some(Header(partial_header.parent, partial_header.height, 0,
                partial_header.extrinsics_root, self.dictator))

DictatorConsensus_seal(self, parent_digest, partial_header) ==
    Some(Header(partial_header.parent, partial_header.height,
                partial_header.state_root, partial_header.extrinsics_root,
                self.dictator))

\* ------------------------------------------------------------ SimplePoa
\* Vec::contains
Contains(auths, a) == \E i \in 1..Len(auths) : auths[i] = a

\* Variant: only the first authority of the list may sign.
SimplePoa_validate_FirstOnly(self, parent_digest, header) ==
    Returned(/\ Len(self.authorities) > 0
             /\ self.authorities[1] = header.consensus_digest)

SimplePoa_validate(self, parent_digest, header) ==
    Returned(Contains(self.authorities, header.consensus_digest))

\* Variant: the header is stamped with the last authority of the list.
SimplePoa_seal_LastAuthority(self, parent_digest, partial_header) ==
    IF Len(self.authorities) = 0
    THEN None
    ELSE Some(Header(partial_header.parent, partial_header.height,
                     partial_header.state_root, partial_header.extrinsics_root,
                     self.authorities[Len(self.authorities)]))

SimplePoa_seal(self, parent_digest, partial_header) ==
    IF Len(self.authorities) = 0
    THEN None
    ELSE Some(Header(partial_header.parent, partial_header.height,
                     partial_header.state_root, partial_header.extrinsics_root,
                     self.authorities[1]))

\* ------------------------------------------------ PoaRoundRobinByHeight
\* `(height - 1) as usize % self.authorities.len()` panics on a zero length;
\* self.authorities[pos] is the (pos+1)-th element of the sequence.
\* Variant: the position is taken from the height itself, not height - 1.
PoaRoundRobinByHeight_validate_PosFromHeight(self, parent_digest, header) ==
    IF header.height = 0
    THEN Returned(TRUE)
    ELSE IF Len(self.authorities) = 0
    THEN Panicked
    ELSE LET pos == header.height % Len(self.authorities)
         IN  Returned(self.authorities[pos + 1] = header.consensus_digest)

PoaRoundRobinByHeight_validate(self, parent_digest, header) ==
    IF header.height = 0
    THEN Returned(TRUE)
    ELSE IF Len(self.authorities) = 0
    THEN Panicked
    ELSE LET pos == (header.height - 1) % Len(self.authorities)
         IN  Returned(self.authorities[pos + 1] = header.consensus_digest)

\* Variant: the position is taken from the height itself, not height - 1.
PoaRoundRobinByHeight_seal_PosFromHeight(self, parent_digest, partial_header) ==
    IF partial_header.height = 0
    THEN None
    ELSE IF Len(self.authorities) = 0
    THEN SealPanicked
    ELSE LET pos == partial_header.height % Len(self.authorities)
         IN  Some(Header(partial_header.parent, partial_header.height,
                         partial_header.state_root,
                         partial_header.extrinsics_root,
                         self.authorities[pos + 1]))

PoaRoundRobinByHeight_seal(self, parent_digest, partial_header) ==
    IF partial_header.height = 0
    THEN None
    ELSE IF Len(self.authorities) = 0
    THEN SealPanicked
    ELSE LET pos == (partial_header.height - 1) % Len(self.authorities)
         IN  Some(Header(partial_header.parent, partial_header.height,
                         partial_header.state_root,
                         partial_header.extrinsics_root,
                         self.authorities[pos + 1]))

\* -------------------------------------------------- PoaRoundRobinBySlot
\* slot.checked_sub(1).expect(..) panics on slot 0.
\* Variant: a slot equal to the parent's slot is let through (>= for >).
PoaRoundRobinBySlot_validate_RepeatedSlot(self, parent_digest, header) ==
    IF header.height = 0
    THEN Returned(TRUE)
    ELSE IF Len(self.authorities) = 0
    THEN Returned(FALSE)
    ELSE IF header.consensus_digest.slot = 0
    THEN Panicked
    ELSE LET pos == (header.consensus_digest.slot - 1) % Len(self.authorities)
             expected_authority == self.authorities[pos + 1]
         IN  Returned(/\ expected_authority = header.consensus_digest.signature
                      /\ header.consensus_digest.slot >= parent_digest.slot)

\* Variant: no genesis exemption; height 0 is checked like any other slot.
PoaRoundRobinBySlot_validate_NoGenesis(self, parent_digest, header) ==
    IF Len(self.authorities) = 0
    THEN Returned(FALSE)
    ELSE IF header.consensus_digest.slot = 0
    THEN Panicked
    ELSE LET pos == (header.consensus_digest.slot - 1) % Len(self.authorities)
             expected_authority == self.authorities[pos + 1]
         IN  Returned(/\ expected_authority = header.consensus_digest.signature
                      /\ header.consensus_digest.slot > parent_digest.slot)

PoaRoundRobinBySlot_validate(self, parent_digest, header) ==
    IF header.height = 0
    THEN Returned(TRUE)
    ELSE IF Len(self.authorities) = 0
    THEN Returned(FALSE)
    ELSE IF header.consensus_digest.slot = 0
    THEN Panicked
    ELSE LET pos == (header.consensus_digest.slot - 1) % Len(self.authorities)
             expected_authority == self.authorities[pos + 1]
         IN  Returned(/\ expected_authority = header.consensus_digest.signature
                      /\ header.consensus_digest.slot > parent_digest.slot)

\* `parent_digest.slot + 1` overflows on u64::MAX: a panic with overflow
\* checks, otherwise slot wraps to 0 and `slot - 1` wraps to u64::MAX.
PoaRoundRobinBySlot_seal(self, checks, parent_digest, partial_header) ==
    IF partial_header.height = 0 \/ Len(self.authorities) = 0
    THEN None
    ELSE IF parent_digest.slot + 1 > MaxU64 /\ checks
    THEN SealPanicked
    ELSE LET slot == (parent_digest.slot + 1) % (MaxU64 + 1)
             pos == ((slot - 1) % (MaxU64 + 1)) % Len(self.authorities)
             signature == self.authorities[pos + 1]
             slot_digest == [slot |-> slot, signature |-> signature]
         IN  Some(Header(partial_header.parent, partial_header.height,
                         partial_header.state_root,
                         partial_header.extrinsics_root, slot_digest))

\* ------------------------------------------------------------------ Pow
\* crate::hash over a Header<u64>: an opaque deterministic digest.
Hash(header) ==
    (header.parent + 3 * header.height + 5 * header.state_root
       + 7 * header.extrinsics_root + header.consensus_digest) % (MaxU64 + 1)

Pow_validate(self, parent_digest, header) ==
    Returned(Hash(header) < self.threshold)

\* the first nonce, counting from 0, whose header hashes below the threshold
Pow_seal(self, parent_digest, partial_header) ==
    LET sealed(n) == Header(partial_header.parent, partial_header.height,
                            partial_header.state_root,
                            partial_header.extrinsics_root, n)
        good == {n \in U64 : Hash(sealed(n)) < self.threshold}
        nonce == CHOOSE n \in good : \A m \in good : n <= m
    IN  Some(sealed(nonce))


\* --------------------------------------------------- EvenOnly<Inner>
\* The engines EvenOnly can wrap: dispatch on the kind of `inner`.
Inner_validate(inner, parent_digest, header) ==
    CASE inner.kind = "DictatorConsensus" ->
           DictatorConsensus_validate(inner, parent_digest, header)
      [] inner.kind = "SimplePoa" ->
           SimplePoa_validate(inner, parent_digest, header)
      [] inner.kind = "PoaRoundRobinByHeight" ->
           PoaRoundRobinByHeight_validate(inner, parent_digest, header)
      [] inner.kind = "PoaRoundRobinBySlot" ->
           PoaRoundRobinBySlot_validate(inner, parent_digest, header)
      [] inner.kind = "Pow" ->
           Pow_validate(inner, parent_digest, header)

Inner_seal(inner, checks, parent_digest, partial_header) ==
    CASE inner.kind = "DictatorConsensus" ->
           DictatorConsensus_seal(inner, parent_digest, partial_header)
      [] inner.kind = "SimplePoa" ->
           SimplePoa_seal(inner, parent_digest, partial_header)
      [] inner.kind = "PoaRoundRobinByHeight" ->
           PoaRoundRobinByHeight_seal(inner, parent_digest, partial_header)
      [] inner.kind = "PoaRoundRobinBySlot" ->
           PoaRoundRobinBySlot_seal(inner, checks, parent_digest, partial_header)
      [] inner.kind = "Pow" ->
           Pow_seal(inner, parent_digest, partial_header)

\* The result of the call and the calls made on self.inner.
\* Variant: the parity of state_root is not checked.
EvenOnly_validate_NoParity(self, parent_digest, header) ==
    [result |-> Inner_validate(self.inner, parent_digest, header),
     calls |-> <<InnerCall(self.inner.kind, "validate", parent_digest, header)>>]

EvenOnly_validate(self, parent_digest, header) ==
    LET inner_result == Inner_validate(self.inner, parent_digest, header)
        result == IF inner_result.status = "panicked" THEN Panicked
                  ELSE IF ~inner_result.value THEN Returned(FALSE)
                  ELSE Returned(header.state_root % 2 = 0)
    IN  [result |-> result,
         calls |-> <<InnerCall(self.inner.kind, "validate", parent_digest, header)>>]

\* Variant: the inner engine seals first, the parity is checked afterwards.
EvenOnly_seal_DelegateFirst(self, checks, parent_digest, partial_header) ==
    LET inner_result == Inner_seal(self.inner, checks, parent_digest,
                                   partial_header)
    IN  [result |-> IF inner_result.status = "panicked" THEN SealPanicked
                    ELSE IF partial_header.state_root % 2 # 0 THEN None
                    ELSE inner_result,
         calls |-> <<InnerCall(self.inner.kind, "seal", parent_digest,
                               partial_header)>>]

EvenOnly_seal(self, checks, parent_digest, partial_header) ==
    IF partial_header.state_root % 2 # 0
    THEN [result |-> None, calls |-> <<>>]
    ELSE [result |-> Inner_seal(self.inner, checks, parent_digest, partial_header),
          calls |-> <<InnerCall(self.inner.kind, "seal", parent_digest,
                                partial_header)>>]

\* ---------------------------------------------------- AlternatingPowPoa
\* TryFrom<PowOrPoaDigest> for u64 / for ConsensusAuthority
TryInto_u64(digest) ==
    IF digest.tag = "Pow" THEN [ok |-> TRUE, value |-> digest.nonce]
    ELSE [ok |-> FALSE, value |-> 0]

TryInto_ConsensusAuthority(digest) ==
    IF digest.tag = "Poa" THEN [ok |-> TRUE, value |-> digest.authority]
    ELSE [ok |-> FALSE, value |-> Unit]

\* Variant: the parity test is inverted (odd heights take the PoA path).
AlternatingPowPoa_validate_Swapped(self, parent_digest, header) ==
    IF header.height % 2 # 0
    THEN LET consensus_digest_result ==
                 TryInto_ConsensusAuthority(header.consensus_digest)
             poa_header == Header(header.parent, header.height,
                                  header.state_root, header.extrinsics_root,
                                  consensus_digest_result.value)
         IN  IF ~consensus_digest_result.ok
             THEN [result |-> Returned(FALSE), calls |-> <<>>]
             ELSE [result |-> SimplePoa_validate(self.poa, "Alice", poa_header),
                   calls |-> <<InnerCall("SimplePoa", "validate", "Alice",
                                         poa_header)>>]
    ELSE LET consensus_digest_result == TryInto_u64(header.consensus_digest)
             pow_header == Header(header.parent, header.height,
                                  header.state_root, header.extrinsics_root,
                                  consensus_digest_result.value)
         IN  IF ~consensus_digest_result.ok
             THEN [result |-> Returned(FALSE), calls |-> <<>>]
             ELSE [result |-> Pow_validate(self.pow, 0, pow_header),
                   calls |-> <<InnerCall("Pow", "validate", 0, pow_header)>>]

AlternatingPowPoa_validate(self, parent_digest, header) ==
    IF header.height % 2 = 0
    THEN LET consensus_digest_result ==
                 TryInto_ConsensusAuthority(header.consensus_digest)
             poa_header == Header(header.parent, header.height,
                                  header.state_root, header.extrinsics_root,
                                  consensus_digest_result.value)
         IN  IF ~consensus_digest_result.ok
             THEN [result |-> Returned(FALSE), calls |-> <<>>]
             ELSE [result |-> SimplePoa_validate(self.poa, "Alice", poa_header),
                   calls |-> <<InnerCall("SimplePoa", "validate", "Alice",
                                         poa_header)>>]
    ELSE LET consensus_digest_result == TryInto_u64(header.consensus_digest)
             pow_header == Header(header.parent, header.height,
                                  header.state_root, header.extrinsics_root,
                                  consensus_digest_result.value)
         IN  IF ~consensus_digest_result.ok
             THEN [result |-> Returned(FALSE), calls |-> <<>>]
             ELSE [result |-> Pow_validate(self.pow, 0, pow_header),
                   calls |-> <<InnerCall("Pow", "validate", 0, pow_header)>>]

\* Variant: the PoW seal's nonce is wrapped with the Poa tag.
AlternatingPowPoa_seal_WrongTag(self, parent_digest, partial_header) ==
    IF partial_header.height % 2 = 0
    THEN LET inner_result == SimplePoa_seal(self.poa, "Alice", partial_header)
             sealed_header == inner_result.header
         IN  [result |->
                IF inner_result.status = "panicked" \/ ~inner_result.some
                THEN SealPanicked
                ELSE Some(Header(sealed_header.parent, sealed_header.height,
                                 sealed_header.state_root,
                                 sealed_header.extrinsics_root,
                                 Poa_(sealed_header.consensus_digest))),
              calls |-> <<InnerCall("SimplePoa", "seal", "Alice",
                                    partial_header)>>]
    ELSE LET inner_result == Pow_seal(self.pow, 0, partial_header)
             sealed_header == inner_result.header
         IN  [result |->
                IF inner_result.status = "panicked" \/ ~inner_result.some
                THEN SealPanicked
                ELSE Some(Header(sealed_header.parent, sealed_header.height,
                                 sealed_header.state_root,
                                 sealed_header.extrinsics_root,
                                 [tag |-> "Poa",
                                  nonce |-> sealed_header.consensus_digest,
                                  authority |-> "Alice"])),
              calls |-> <<InnerCall("Pow", "seal", 0, partial_header)>>]

\* Option::unwrap on the inner seal panics on None.
AlternatingPowPoa_seal(self, parent_digest, partial_header) ==
    IF partial_header.height % 2 = 0
    THEN LET inner_result == SimplePoa_seal(self.poa, "Alice", partial_header)
             sealed_header == inner_result.header
         IN  [result |->
                IF inner_result.status = "panicked" \/ ~inner_result.some
                THEN SealPanicked
                ELSE Some(Header(sealed_header.parent, sealed_header.height,
                                 sealed_header.state_root,
                                 sealed_header.extrinsics_root,
                                 Poa_(sealed_header.consensus_digest))),
              calls |-> <<InnerCall("SimplePoa", "seal", "Alice",
                                    partial_header)>>]
    ELSE LET inner_result == Pow_seal(self.pow, 0, partial_header)
             sealed_header == inner_result.header
         IN  [result |->
                IF inner_result.status = "panicked" \/ ~inner_result.some
                THEN SealPanicked
                ELSE Some(Header(sealed_header.parent, sealed_header.height,
                                 sealed_header.state_root,
                                 sealed_header.extrinsics_root,
                                 Pow_(sealed_header.consensus_digest))),
              calls |-> <<InnerCall("Pow", "seal", 0, partial_header)>>]

\* ------------------------------------------------------- construction
moderate_difficulty_pow == [kind |-> "Pow", threshold |-> 2]

DictatorEngines == [kind : {"DictatorConsensus"}, dictator : ConsensusAuthority]
SimplePoaEngines == [kind : {"SimplePoa"}, authorities : AuthorityLists]
ByHeightEngines == [kind : {"PoaRoundRobinByHeight"}, authorities : AuthorityLists]
BySlotEngines == [kind : {"PoaRoundRobinBySlot"}, authorities : AuthorityLists]

InnerEngines ==
    DictatorEngines \cup SimplePoaEngines \cup ByHeightEngines
      \cup BySlotEngines \cup {moderate_difficulty_pow}

EvenOnlyEngines == [kind : {"EvenOnly"}, inner : InnerEngines]

AlternatingEngines ==
    [kind : {"AlternatingPowPoa"}, pow : {moderate_difficulty_pow},
     poa : SimplePoaEngines]

Engines ==
    DictatorEngines \cup SimplePoaEngines \cup ByHeightEngines
      \cup BySlotEngines \cup EvenOnlyEngines \cup AlternatingEngines

\* The Digest associated type of an engine that is not a wrapper
DigestOf(kind) ==
    CASE kind \in {"DictatorConsensus", "SimplePoa", "PoaRoundRobinByHeight"} ->
           ConsensusAuthority
      [] kind = "PoaRoundRobinBySlot" -> SlotDigest
      [] kind = "Pow" -> U64

\* =========================================================== fork choice
\* c2_blockchain/p5_fork_choice.rs: LongestChainRule, HeaviestChainRule and
\* MostBlocksWithEvenHash.  The rules are unit structs; their functions
\* take the chains as arguments and keep nothing.

THRESHOLD == MaxU64 \div ThresholdDivisor

\* Headers the chains are made of: they differ in the nonce, hence in hash.
\* Their hashes are 0 (even, the most work), 1 (odd, less work) and u64::MAX
\* (above THRESHOLD, no work).
ForkHeaders ==
    [parent : {0}, height : {0}, state_root : {0}, extrinsics_root : {0},
     consensus_digest : {0, 1, MaxU64}]

\* &[Header]: chains of up to MaxChainLen headers, the empty chain included
Chains == UNION {[1..n -> ForkHeaders] : n \in 0..MaxChainLen}

\* Chains drawn as candidates of best_chain: one chain for every multiset of
\* headers, its nonces in non-decreasing order.
CandidateChains ==
    {chain \in Chains :
        \A i \in 1..(Len(chain) - 1) :
            chain[i].consensus_digest <= chain[i + 1].consensus_digest}

\* &[&[Header]]: candidate lists, the empty list included
CandidateLists == UNION {[1..n -> CandidateChains] : n \in 0..MaxCandidates}

\* best_chain: the chain returned, or a panic
ChainReturned(chain) == [status |-> "returned", chain |-> chain]
ChainPanicked == [status |-> "panicked", chain |-> <<>>]

\* THRESHOLD.checked_sub(hash(h)).unwrap_or(0)
Work(h) == IF THRESHOLD - Hash(h) >= 0 THEN THRESHOLD - Hash(h) ELSE 0

\* Iterator::sum::<u64>() over the items of a list, from the left: an
\* overflowing addition panics with overflow checks and wraps without.
RECURSIVE SumFrom(_, _, _, _)
SumFrom(items, i, acc, checks) ==
    IF i > Len(items)
    THEN [ok |-> TRUE, value |-> acc]
    ELSE IF acc + items[i] > MaxU64 /\ checks
    THEN [ok |-> FALSE, value |-> 0]
    ELSE SumFrom(items, i + 1, (acc + items[i]) % (MaxU64 + 1), checks)

Sum_u64(items, checks) == SumFrom(items, 1, 0, checks)

\* The accumulated work of a chain
TotalWork(chain, checks) ==
    Sum_u64([i \in 1..Len(chain) |-> Work(chain[i])], checks)

\* chain.iter().filter(|h| hash(h) % 2 == 0).count()
RECURSIVE EvenCountFrom(_, _)
EvenCountFrom(chain, i) ==
    IF i > Len(chain) THEN 0
    ELSE (IF Hash(chain[i]) % 2 = 0 THEN 1 ELSE 0) + EvenCountFrom(chain, i + 1)

EvenHashes(chain) == EvenCountFrom(chain, 1)

\* Iterator::max_by_key over a non-empty list of keys: the index of the
\* element kept by the fold, which keeps the current best only while its key
\* is greater than the next one's.
RECURSIVE MaxFrom(_, _, _)
MaxFrom(keys, i, best) ==
    IF i > Len(keys) THEN best
    ELSE MaxFrom(keys, i + 1, IF keys[best] > keys[i] THEN best ELSE i)

MaxByKey(keys) == MaxFrom(keys, 2, 1)

\* ---------------------------------------------------- LongestChainRule
LongestChainRule_first_chain_is_better(chain_1, chain_2) ==
    Returned(Len(chain_1) > Len(chain_2))

\* max_by_key(..).unwrap() panics on an empty candidate list
LongestChainRule_best_chain(candidate_chains) ==
    IF Len(candidate_chains) = 0
    THEN ChainPanicked
    ELSE LET keys == [i \in 1..Len(candidate_chains) |->
                        Len(candidate_chains[i])]
         IN  ChainReturned(candidate_chains[MaxByKey(keys)])

\* --------------------------------------------------- HeaviestChainRule
HeaviestChainRule_first_chain_is_better(checks, chain_1, chain_2) ==
    LET work_chain1 == TotalWork(chain_1, checks)
        work_chain2 == TotalWork(chain_2, checks)
    IN  IF ~work_chain1.ok \/ ~work_chain2.ok
        THEN Panicked
        ELSE Returned(work_chain1.value > work_chain2.value)

HeaviestChainRule_best_chain(checks, candidate_chains) ==
    LET works == [i \in 1..Len(candidate_chains) |->
                     TotalWork(candidate_chains[i], checks)]
        keys == [i \in 1..Len(candidate_chains) |-> works[i].value]
    IN  IF \E i \in 1..Len(candidate_chains) : ~works[i].ok
        THEN ChainPanicked
        ELSE IF Len(candidate_chains) = 0
        THEN ChainPanicked
        ELSE ChainReturned(candidate_chains[MaxByKey(keys)])

\* ---------------------------------------------- MostBlocksWithEvenHash
\* Variant: the blocks with an odd hash are counted.
MostBlocksWithEvenHash_first_chain_is_better_CountsOdd(chain_1, chain_2) ==
    LET even_hashes_chain1 == Len(chain_1) - EvenHashes(chain_1)
        even_hashes_chain2 == Len(chain_2) - EvenHashes(chain_2)
    IN  Returned(even_hashes_chain1 > even_hashes_chain2)

MostBlocksWithEvenHash_first_chain_is_better(chain_1, chain_2) ==
    LET even_hashes_chain1 == EvenHashes(chain_1)
        even_hashes_chain2 == EvenHashes(chain_2)
    IN  Returned(even_hashes_chain1 > even_hashes_chain2)

MostBlocksWithEvenHash_best_chain(candidate_chains) ==
    IF Len(candidate_chains) = 0
    THEN ChainPanicked
    ELSE LET keys == [i \in 1..Len(candidate_chains) |->
                        EvenHashes(candidate_chains[i])]
         IN  ChainReturned(candidate_chains[MaxByKey(keys)])

\* The call recorded in `fork`: the rule, the function, the chains passed
\* (chain_1 and chain_2, or the candidate list) and the outcome.
ForkCall(rule, fn, args, result) ==
    [rule |-> rule, fn |-> fn, args |-> args, result |-> result]

NoFork == ForkCall("none", "none", <<>>, Returned(FALSE))

\* ========================================================= digital cash
\* c1_state_machine/p5_digital_cash.rs: DigitalCashSystem, a state machine
\* over the set of circulating bills.

\* super::User: the users that own bills
User == {"Alice", "Bob"}

\* Bill { owner, amount, serial }
Bill(owner, amount, serial) ==
    [owner |-> owner, amount |-> amount, serial |-> serial]

\* State { bills: HashSet<Bill>, next_serial }
State(bills, next_serial) == [bills |-> bills, next_serial |-> next_serial]

\* State::new()
State_new == State({}, 0)

\* The outcome of a call that builds a state: the state, or a panic
StateReturned(state) == [status |-> "returned", state |-> state]
StatePanicked == [status |-> "panicked", state |-> State_new]

\* self.next_serial += 1: the addition panics on overflow with overflow
\* checks and wraps without.
increment_serial(self, checks) ==
    IF self.next_serial + 1 > MaxU64 /\ checks
    THEN StatePanicked
    ELSE StateReturned(
             [self EXCEPT !.next_serial = (@ + 1) % (MaxU64 + 1)])

\* self.bills.insert(elem); self.increment_serial()
add_bill(self, elem, checks) ==
    increment_serial([self EXCEPT !.bills = @ \cup {elem}], checks)

\* Variant: a serial of the spends is compared with the receives only.
has_unique_serials_ReceivesOnly(sends, receives) ==
    \A i \in 1..Len(receives) :
        /\ \A j \in 1..Len(sends) : sends[j].serial # receives[i].serial
        /\ \A j \in 1..(i - 1) : receives[j].serial # receives[i].serial

\* has_unique_serials: no serial occurs twice in sends followed by receives
has_unique_serials(sends, receives) ==
    LET seen == sends \o receives
    IN  \A i \in 1..Len(seen) :
            \A j \in 1..(i - 1) : seen[j].serial # seen[i].serial

\* try_fold(0u64, |acc, b| acc.checked_add(b.amount)): None on overflow
RECURSIVE CheckedSumFrom(_, _, _)
CheckedSumFrom(bills, i, acc) ==
    IF i > Len(bills) THEN [some |-> TRUE, value |-> acc]
    ELSE IF acc + bills[i].amount > MaxU64
    THEN [some |-> FALSE, value |-> 0]
    ELSE CheckedSumFrom(bills, i + 1, acc + bills[i].amount)

\* Variant: only the received amounts are added with checked_add.
has_overflow_ReceivesOnly(spends, receives) ==
    LET receive_sum == CheckedSumFrom(receives, 1, 0)
    IN  ~receive_sum.some

has_overflow(spends, receives) ==
    LET spend_sum == CheckedSumFrom(spends, 1, 0)
        receive_sum == CheckedSumFrom(receives, 1, 0)
    IN  ~spend_sum.some \/ ~receive_sum.some

\* bills.iter().map(|b| b.amount).sum::<u64>()
AmountSum(bills, checks) ==
    Sum_u64([i \in 1..Len(bills) |-> bills[i].amount], checks)

\* Variant: a received bill of amount 0 is let through.
ReceivesZeroAmount_Never(receives) == FALSE

\* receives.iter().any(|b| b.amount == 0)
ReceivesZeroAmount(receives) ==
    \E i \in 1..Len(receives) : receives[i].amount = 0

\* Variant: a spent bill is looked up by its serial alone.
SpendsInCirculation_BySerial(starting_state, spends) ==
    \A i \in 1..Len(spends) :
        \E b \in starting_state.bills : b.serial = spends[i].serial

\* !spends.iter().any(|b| !starting_state.bills.contains(b))
SpendsInCirculation(starting_state, spends) ==
    \A i \in 1..Len(spends) : spends[i] \in starting_state.bills

\* Variant: the amounts are not compared.
ReceivesExceedSpends_Never(spends, receives, checks) ==
    [ok |-> TRUE, value |-> FALSE]

\* sum of the spends < sum of the receives
ReceivesExceedSpends(spends, receives, checks) ==
    LET spent == AmountSum(spends, checks)
        received == AmountSum(receives, checks)
    IN  [ok |-> spent.ok /\ received.ok, value |-> spent.value < received.value]

\* Variant: the spent bills stay in circulation.
RemoveSpends_Keep(new_state, spends) == new_state

\* for bill in spends { new_state.bills.remove(bill); }
RemoveSpends(new_state, spends) ==
    [new_state EXCEPT !.bills = @ \ {spends[i] : i \in 1..Len(spends)}]

\* for bill in receives { new_state.add_bill(bill.clone()); }
RECURSIVE AddReceives(_, _, _, _)
AddReceives(new_state, receives, i, checks) ==
    IF i > Len(receives) THEN StateReturned(new_state)
    ELSE LET added == add_bill(new_state, receives[i], checks)
         IN  IF added.status = "panicked" THEN StatePanicked
             ELSE AddReceives(added.state, receives, i + 1, checks)

\* next_state, CashTransaction::Mint { minter, amount }
next_state_Mint(starting_state, checks, minter, amount) ==
    IF amount = 0
    THEN StateReturned(starting_state)
    ELSE add_bill(starting_state,
                  Bill(minter, amount, starting_state.next_serial), checks)

\* next_state, CashTransaction::Transfer { spends, receives }
next_state_Transfer(starting_state, checks, spends, receives) ==
    IF \E i \in 1..Len(receives) : receives[i].serial = MaxU64
    THEN StateReturned(starting_state)
    ELSE IF ~has_unique_serials(spends, receives)
    THEN StateReturned(starting_state)
    ELSE IF ReceivesZeroAmount(receives)
    THEN StateReturned(starting_state)
    ELSE IF Len(spends) = 0
    THEN StateReturned(starting_state)
    ELSE IF ~SpendsInCirculation(starting_state, spends)
    THEN StateReturned(starting_state)
    ELSE IF has_overflow(spends, receives)
    THEN StateReturned(starting_state)
    ELSE LET exceeds == ReceivesExceedSpends(spends, receives, checks)
         IN  IF ~exceeds.ok
             THEN StatePanicked
             ELSE IF exceeds.value
             THEN StateReturned(starting_state)
             ELSE AddReceives(RemoveSpends(starting_state, spends),
                              receives, 1, checks)

\* The transition recorded in `tx`: the transaction, the state it was
\* applied to, whether next_state returned, and whether a Transfer has been
\* applied earlier in the behaviour.
Tx(kind, minter, amount, spends, receives, start, status, transferred) ==
    [kind |-> kind, minter |-> minter, amount |-> amount, spends |-> spends,
     receives |-> receives, start |-> start, status |-> status,
     transferred |-> transferred]

NoTx == Tx("none", "Alice", 0, <<>>, <<>>, State_new, "returned", FALSE)

\* Vec<Bill> over a set of bills: the lists of no, one and two bills
BillLists(bills) ==
    {<<>>} \cup {<<a>> : a \in bills} \cup {<<a, b>> : a, b \in bills}

\* Amounts of the transactions: nothing, one unit, and u64::MAX
Amounts == {0, 1, MaxU64}

\* Bills a Transfer may name as spent: the circulating bills, the same
\* bills with another owner or another amount, and a bill never issued.
SpendBills(state) ==
    state.bills
    \cup {[b EXCEPT !.owner = u] : b \in state.bills, u \in User}
    \cup {[b EXCEPT !.amount = a] : b \in state.bills, a \in Amounts \ {0}}
    \cup {Bill("Alice", 1, state.next_serial)}

\* Bills a Transfer may name as received, all of them paid to Bob: their
\* serial is one of the next two the state would assign, or 0, or u64::MAX.
ReceiveBills(state) ==
    [owner : {"Bob"}, amount : Amounts,
     serial : {state.next_serial, state.next_serial + 1, 0, MaxU64} \cap U64]


\* =========================================================== governance
\* c1_state_machine/p6_open_ended.rs: GovernanceState, a state machine
\* over proposals, the votes cast on them and the time that has passed.

\* Proposal { id, proposed_action, proposed_by, pending_until_time_unit }
Proposal(id, proposed_action, proposed_by, pending_until_time_unit) ==
    [id |-> id, proposed_action |-> proposed_action,
     proposed_by |-> proposed_by,
     pending_until_time_unit |-> pending_until_time_unit]

\* enum VoteType { Aye, Nay }
VoteType == {"Aye", "Nay"}

\* Vote { proposal_id, vote, user }
Vote(proposal_id, vote, user) ==
    [proposal_id |-> proposal_id, vote |-> vote, user |-> user]

\* GovernanceState { proposals: Vec, votes: Vec, time_units_passed }
GovernanceState(proposals, votes, time_units_passed) ==
    [proposals |-> proposals, votes |-> votes,
     time_units_passed |-> time_units_passed]

\* GovernanceState::new()
GovernanceState_new == GovernanceState(<<>>, <<>>, 0)

\* Outcome of a governance transition: the state returned, or a panic
GovReturned(state) == [status |-> "returned", state |-> state]
GovPanicked == [status |-> "panicked", state |-> GovernanceState_new]

\* Variant: the clock advances by two units.
one_time_unit_passed_ByTwo(self, checks) ==
    IF self.time_units_passed + 2 > MaxU64 /\ checks
    THEN GovPanicked
    ELSE GovReturned(
             [self EXCEPT !.time_units_passed = (@ + 2) % (MaxU64 + 1)])

\* self.time_units_passed += 1: the addition panics on overflow with
\* overflow checks and wraps without.
one_time_unit_passed(self, checks) ==
    IF self.time_units_passed + 1 > MaxU64 /\ checks
    THEN GovPanicked
    ELSE GovReturned(
             [self EXCEPT !.time_units_passed = (@ + 1) % (MaxU64 + 1)])

\* self.votes.push(Vote { proposal_id, vote: VoteType::Aye, user })
vote_in_favor(self, proposal_id, user) ==
    [self EXCEPT !.votes = Append(@, Vote(proposal_id, "Aye", user))]

\* self.votes.push(Vote { proposal_id, vote: VoteType::Nay, user })
vote_against(self, proposal_id, user) ==
    [self EXCEPT !.votes = Append(@, Vote(proposal_id, "Nay", user))]

\* The new proposal's id is self.proposals.len() as u64 + 1; a Vec holds
\* fewer than u64::MAX elements, so the addition does not overflow.
add_proposal(self, proposed_action, proposed_by, pending_until_time_unit) ==
    [self EXCEPT !.proposals =
        Append(@, Proposal(Len(self.proposals) + 1, proposed_action,
                           proposed_by, pending_until_time_unit))]

\* Variant: a proposal with the id exists, pending or not.
proposal_exists_and_pending_IgnoresTime(self, proposal_id) ==
    \E i \in 1..Len(self.proposals) : self.proposals[i].id = proposal_id

\* self.proposals.iter().any(|p| p.id == proposal_id
\*     && p.pending_until_time_unit >= self.time_units_passed)
proposal_exists_and_pending(self, proposal_id) ==
    \E i \in 1..Len(self.proposals) :
        /\ self.proposals[i].id = proposal_id
        /\ self.proposals[i].pending_until_time_unit >= self.time_units_passed

\* Variant: no recorded vote counts as the user's.
has_user_voted_Never(self, proposal_id, user) == FALSE

\* self.votes.iter().any(|v| v.proposal_id == proposal_id && v.user == user)
has_user_voted(self, proposal_id, user) ==
    \E i \in 1..Len(self.votes) :
        /\ self.votes[i].proposal_id = proposal_id
        /\ self.votes[i].user = user

\* next_state, GovernanceAction::OneTimeUnitPassed
next_state_OneTimeUnitPassed(starting_state, checks) ==
    one_time_unit_passed(starting_state, checks)

\* next_state, GovernanceAction::VoteInFavor(proposal_id, user)
next_state_VoteInFavor(starting_state, proposal_id, user) ==
    IF /\ proposal_exists_and_pending(starting_state, proposal_id)
       /\ ~has_user_voted(starting_state, proposal_id, user)
    THEN GovReturned(vote_in_favor(starting_state, proposal_id, user))
    ELSE GovReturned(starting_state)

\* next_state, GovernanceAction::VoteAgainst(proposal_id, user)
next_state_VoteAgainst(starting_state, proposal_id, user) ==
    IF /\ proposal_exists_and_pending(starting_state, proposal_id)
       /\ ~has_user_voted(starting_state, proposal_id, user)
    THEN GovReturned(vote_against(starting_state, proposal_id, user))
    ELSE GovReturned(starting_state)

\* next_state, GovernanceAction::AddProposal(action, user, pending_until)
next_state_AddProposal(starting_state, proposed_action, proposed_by, pending_until_time_unit) ==
    IF pending_until_time_unit >= starting_state.time_units_passed
    THEN GovReturned(add_proposal(starting_state, proposed_action,
                                  proposed_by, pending_until_time_unit))
    ELSE GovReturned(starting_state)

\* The last GovernanceAction applied, the state it was applied to and how
\* next_state ended; the fields an action does not carry hold fillers.
GovTx(kind, proposal_id, user, pending_until_time_unit, start, status) ==
    [kind |-> kind, proposal_id |-> proposal_id, user |-> user,
     pending_until_time_unit |-> pending_until_time_unit,
     start |-> start, status |-> status]

NoGovTx == GovTx("none", 0, "Alice", 0, GovernanceState_new, "returned")

\* Inputs of the governance actions: the one action text proposed and the
\* one user proposing it (next_state reads neither), the deadlines a
\* proposal is given, and the ids voted on, one of them beyond every
\* proposal.
ProposedActions == {"Upgrade"}
Proposers == {"Alice"}
PendingUntil == {0, 1, MaxU64}
ProposalIds == 1..(MaxProposals + 1)


\* ------------------------------------------------------------- actions
Call(fn, parent_digest, header, result) ==
    [fn |-> fn, parent_digest |-> parent_digest, header |-> header,
     result |-> result]

Init ==
    /\ engine \in Engines
    /\ overflow_checks \in BOOLEAN
    /\ op = Call("none", Unit, NoHeader, None)
    /\ calls = <<>>
    /\ fork = NoFork
    /\ cash = State_new
    /\ tx = NoTx
    /\ gov = GovernanceState_new
    /\ gtx = NoGovTx

\* No call has been made yet on the constructed engine.
Idle == op.fn = "none"

DictatorValidate ==
    /\ Idle
    /\ engine.kind = "DictatorConsensus"
    /\ \E pd \in ConsensusAuthority, h \in Headers(ConsensusAuthority) :
          op' = Call("validate", pd, h, DictatorConsensus_validate(engine, pd, h))
    /\ calls' = <<>>
    /\ UNCHANGED <<engine, overflow_checks, fork, cash, tx, gov, gtx>>

DictatorSeal ==
    /\ Idle
    /\ engine.kind = "DictatorConsensus"
    /\ \E pd \in ConsensusAuthority, ph \in Headers({Unit}) :
          op' = Call("seal", pd, ph, DictatorConsensus_seal(engine, pd, ph))
    /\ calls' = <<>>
    /\ UNCHANGED <<engine, overflow_checks, fork, cash, tx, gov, gtx>>

SimplePoaValidate ==
    /\ Idle
    /\ engine.kind = "SimplePoa"
    /\ \E pd \in ConsensusAuthority, h \in Headers(ConsensusAuthority) :
          op' = Call("validate", pd, h, SimplePoa_validate(engine, pd, h))
    /\ calls' = <<>>
    /\ UNCHANGED <<engine, overflow_checks, fork, cash, tx, gov, gtx>>

SimplePoaSeal ==
    /\ Idle
    /\ engine.kind = "SimplePoa"
    /\ \E pd \in ConsensusAuthority, ph \in Headers({Unit}) :
          op' = Call("seal", pd, ph, SimplePoa_seal(engine, pd, ph))
    /\ calls' = <<>>
    /\ UNCHANGED <<engine, overflow_checks, fork, cash, tx, gov, gtx>>

ByHeightValidate ==
    /\ Idle
    /\ engine.kind = "PoaRoundRobinByHeight"
    /\ \E pd \in ConsensusAuthority, h \in Headers(ConsensusAuthority) :
          op' = Call("validate", pd, h,
                     PoaRoundRobinByHeight_validate(engine, pd, h))
    /\ calls' = <<>>
    /\ UNCHANGED <<engine, overflow_checks, fork, cash, tx, gov, gtx>>

ByHeightSeal ==
    /\ Idle
    /\ engine.kind = "PoaRoundRobinByHeight"
    /\ \E pd \in ConsensusAuthority, ph \in Headers({Unit}) :
          op' = Call("seal", pd, ph, PoaRoundRobinByHeight_seal(engine, pd, ph))
    /\ calls' = <<>>
    /\ UNCHANGED <<engine, overflow_checks, fork, cash, tx, gov, gtx>>

BySlotValidate ==
    /\ Idle
    /\ engine.kind = "PoaRoundRobinBySlot"
    /\ \E pd \in SlotDigest, h \in Headers(SlotDigest) :
          op' = Call("validate", pd, h,
                     PoaRoundRobinBySlot_validate(engine, pd, h))
    /\ calls' = <<>>
    /\ UNCHANGED <<engine, overflow_checks, fork, cash, tx, gov, gtx>>

BySlotSeal ==
    /\ Idle
    /\ engine.kind = "PoaRoundRobinBySlot"
    /\ \E pd \in SlotDigest, ph \in Headers({Unit}) :
          op' = Call("seal", pd, ph,
                     PoaRoundRobinBySlot_seal(engine, overflow_checks, pd, ph))
    /\ calls' = <<>>
    /\ UNCHANGED <<engine, overflow_checks, fork, cash, tx, gov, gtx>>

EvenOnlyValidate ==
    /\ Idle
    /\ engine.kind = "EvenOnly"
    /\ \E pd \in DigestOf(engine.inner.kind),
          h \in Headers(DigestOf(engine.inner.kind)) :
          LET r == EvenOnly_validate(engine, pd, h)
          IN  /\ op' = Call("validate", pd, h, r.result)
              /\ calls' = r.calls
    /\ UNCHANGED <<engine, overflow_checks, fork, cash, tx, gov, gtx>>

EvenOnlySeal ==
    /\ Idle
    /\ engine.kind = "EvenOnly"
    /\ \E pd \in DigestOf(engine.inner.kind), ph \in Headers({Unit}) :
          LET r == EvenOnly_seal(engine, overflow_checks, pd, ph)
          IN  /\ op' = Call("seal", pd, ph, r.result)
              /\ calls' = r.calls
    /\ UNCHANGED <<engine, overflow_checks, fork, cash, tx, gov, gtx>>

AlternatingValidate ==
    /\ Idle
    /\ engine.kind = "AlternatingPowPoa"
    /\ \E pd \in PowOrPoaDigest, h \in Headers(PowOrPoaDigest) :
          LET r == AlternatingPowPoa_validate(engine, pd, h)
          IN  /\ op' = Call("validate", pd, h, r.result)
              /\ calls' = r.calls
    /\ UNCHANGED <<engine, overflow_checks, fork, cash, tx, gov, gtx>>

AlternatingSeal ==
    /\ Idle
    /\ engine.kind = "AlternatingPowPoa"
    /\ \E pd \in PowOrPoaDigest, ph \in Headers({Unit}) :
          LET r == AlternatingPowPoa_seal(engine, pd, ph)
          IN  /\ op' = Call("seal", pd, ph, r.result)
              /\ calls' = r.calls
    /\ UNCHANGED <<engine, overflow_checks, fork, cash, tx, gov, gtx>>

Next ==
    \/ DictatorValidate
    \/ DictatorSeal
    \/ SimplePoaValidate
    \/ SimplePoaSeal
    \/ ByHeightValidate
    \/ ByHeightSeal
    \/ BySlotValidate
    \/ BySlotSeal
    \/ EvenOnlyValidate
    \/ EvenOnlySeal
    \/ AlternatingValidate
    \/ AlternatingSeal

Spec == Init /\ [][Next]_vars

\* ------------------------------------------------- fork-choice actions
\* No engine is constructed while the fork-choice rules are exercised.
NoEngine == [kind |-> "none"]

InitFork ==
    /\ engine = NoEngine
    /\ overflow_checks \in BOOLEAN
    /\ op = Call("none", Unit, NoHeader, None)
    /\ calls = <<>>
    /\ fork = NoFork
    /\ cash = State_new
    /\ tx = NoTx
    /\ gov = GovernanceState_new
    /\ gtx = NoGovTx

\* No fork-choice call has been made yet.
ForkIdle == fork.fn = "none"

LongestFirstChainIsBetter ==
    /\ ForkIdle
    /\ \E chain_1 \in Chains, chain_2 \in Chains :
          fork' = ForkCall("LongestChainRule", "first_chain_is_better",
                           <<chain_1, chain_2>>,
                           LongestChainRule_first_chain_is_better(chain_1, chain_2))
    /\ UNCHANGED <<engine, overflow_checks, op, calls, cash, tx, gov, gtx>>

LongestBestChain ==
    /\ ForkIdle
    /\ \E candidate_chains \in CandidateLists :
          fork' = ForkCall("LongestChainRule", "best_chain", candidate_chains,
                           LongestChainRule_best_chain(candidate_chains))
    /\ UNCHANGED <<engine, overflow_checks, op, calls, cash, tx, gov, gtx>>

HeaviestFirstChainIsBetter ==
    /\ ForkIdle
    /\ \E chain_1 \in Chains, chain_2 \in Chains :
          fork' = ForkCall("HeaviestChainRule", "first_chain_is_better",
                           <<chain_1, chain_2>>,
                           HeaviestChainRule_first_chain_is_better(
                               overflow_checks, chain_1, chain_2))
    /\ UNCHANGED <<engine, overflow_checks, op, calls, cash, tx, gov, gtx>>

HeaviestBestChain ==
    /\ ForkIdle
    /\ \E candidate_chains \in CandidateLists :
          fork' = ForkCall("HeaviestChainRule", "best_chain", candidate_chains,
                           HeaviestChainRule_best_chain(overflow_checks,
                                                        candidate_chains))
    /\ UNCHANGED <<engine, overflow_checks, op, calls, cash, tx, gov, gtx>>

MostEvenFirstChainIsBetter ==
    /\ ForkIdle
    /\ \E chain_1 \in Chains, chain_2 \in Chains :
          fork' = ForkCall("MostBlocksWithEvenHash", "first_chain_is_better",
                           <<chain_1, chain_2>>,
                           MostBlocksWithEvenHash_first_chain_is_better(
                               chain_1, chain_2))
    /\ UNCHANGED <<engine, overflow_checks, op, calls, cash, tx, gov, gtx>>

MostEvenBestChain ==
    /\ ForkIdle
    /\ \E candidate_chains \in CandidateLists :
          fork' = ForkCall("MostBlocksWithEvenHash", "best_chain",
                           candidate_chains,
                           MostBlocksWithEvenHash_best_chain(candidate_chains))
    /\ UNCHANGED <<engine, overflow_checks, op, calls, cash, tx, gov, gtx>>

NextFork ==
    \/ LongestFirstChainIsBetter
    \/ LongestBestChain
    \/ HeaviestFirstChainIsBetter
    \/ HeaviestBestChain
    \/ MostEvenFirstChainIsBetter
    \/ MostEvenBestChain

SpecFork == InitFork /\ [][NextFork]_vars

\* ------------------------------------------------ digital cash actions
InitCash ==
    /\ engine = NoEngine
    /\ overflow_checks \in BOOLEAN
    /\ op = Call("none", Unit, NoHeader, None)
    /\ calls = <<>>
    /\ fork = NoFork
    /\ cash = State_new
    /\ tx = NoTx
    /\ gov = GovernanceState_new
    /\ gtx = NoGovTx

\* A behaviour applies one Transfer, and mints before and after it while
\* fewer than MaxMints bills circulate; a panic ends it.  After a Transfer
\* that was rejected the state is the one before it, and a Mint is not
\* applied to it a second time.
Mint ==
    /\ tx.kind = "Transfer" => cash # tx.start
    /\ tx.status = "returned"
    /\ Cardinality(cash.bills) < MaxMints
    /\ \E minter \in User, amount \in Amounts :
          LET next == next_state_Mint(cash, overflow_checks, minter, amount)
          IN  /\ cash' = IF next.status = "returned" THEN next.state ELSE cash
              /\ tx' = Tx("Mint", minter, amount, <<>>, <<>>, cash,
                          next.status,
                          tx.kind = "Transfer" \/ tx.transferred)
    /\ UNCHANGED <<engine, overflow_checks, op, calls, fork, gov, gtx>>

Transfer ==
    /\ tx.kind # "Transfer"
    /\ ~tx.transferred
    /\ tx.status = "returned"
    /\ \E spends \in BillLists(SpendBills(cash)),
          receives \in BillLists(ReceiveBills(cash)) :
          LET next == next_state_Transfer(cash, overflow_checks, spends,
                                          receives)
          IN  /\ cash' = IF next.status = "returned" THEN next.state ELSE cash
              /\ tx' = Tx("Transfer", "Alice", 0, spends, receives, cash,
                          next.status, FALSE)
    /\ UNCHANGED <<engine, overflow_checks, op, calls, fork, gov, gtx>>

NextCash ==
    \/ Mint
    \/ Transfer

SpecCash == InitCash /\ [][NextCash]_vars


\* -------------------------------------------------- governance actions
InitGov ==
    /\ engine = NoEngine
    /\ overflow_checks \in BOOLEAN
    /\ op = Call("none", Unit, NoHeader, None)
    /\ calls = <<>>
    /\ fork = NoFork
    /\ cash = State_new
    /\ tx = NoTx
    /\ gov = GovernanceState_new
    /\ gtx = NoGovTx

\* Every step applies next_state to the state with one GovernanceAction;
\* a panic ends the behaviour.  The clock stops at MaxTime, and proposals
\* and votes are added while the state holds fewer than MaxProposals and
\* MaxVotes of them.
OneTimeUnitPassed ==
    /\ gtx.status = "returned"
    /\ gov.time_units_passed < MaxTime
    /\ LET next == next_state_OneTimeUnitPassed(gov, overflow_checks)
       IN  /\ gov' = IF next.status = "returned" THEN next.state ELSE gov
           /\ gtx' = GovTx("OneTimeUnitPassed", 0, "Alice", 0, gov,
                           next.status)
    /\ UNCHANGED <<engine, overflow_checks, op, calls, fork, cash, tx>>

VoteInFavor ==
    /\ gtx.status = "returned"
    /\ Len(gov.votes) < MaxVotes
    /\ \E proposal_id \in ProposalIds, user \in User :
          LET next == next_state_VoteInFavor(gov, proposal_id, user)
          IN  /\ gov' = next.state
              /\ gtx' = GovTx("VoteInFavor", proposal_id, user, 0, gov,
                              next.status)
    /\ UNCHANGED <<engine, overflow_checks, op, calls, fork, cash, tx>>

VoteAgainst ==
    /\ gtx.status = "returned"
    /\ Len(gov.votes) < MaxVotes
    /\ \E proposal_id \in ProposalIds, user \in User :
          LET next == next_state_VoteAgainst(gov, proposal_id, user)
          IN  /\ gov' = next.state
              /\ gtx' = GovTx("VoteAgainst", proposal_id, user, 0, gov,
                              next.status)
    /\ UNCHANGED <<engine, overflow_checks, op, calls, fork, cash, tx>>

AddProposal ==
    /\ gtx.status = "returned"
    /\ Len(gov.proposals) < MaxProposals
    /\ \E proposed_action \in ProposedActions, proposed_by \in Proposers,
          pending_until_time_unit \in PendingUntil :
          LET next == next_state_AddProposal(gov, proposed_action,
                          proposed_by, pending_until_time_unit)
          IN  /\ gov' = next.state
              /\ gtx' = GovTx("AddProposal", 0, proposed_by,
                              pending_until_time_unit, gov, next.status)
    /\ UNCHANGED <<engine, overflow_checks, op, calls, fork, cash, tx>>

NextGov ==
    \/ OneTimeUnitPassed
    \/ VoteInFavor
    \/ VoteAgainst
    \/ AddProposal

SpecGov == InitGov /\ [][NextGov]_vars

\* =============================================================== claims
\* Shorthands over the recorded call.
Called(kind, fn) == engine.kind = kind /\ op.fn = fn
IsEven(n) == n % 2 = 0

\* C1: PoaRoundRobinBySlot.validate, for a header of height > 0 with digest
\* slot >= 1 and a non-empty authority list of length n, returns true iff the
\* signature is authorities[(slot-1) mod n] and the slot is strictly greater
\* than the parent digest's slot.
C1_BySlotValidateIff ==
    (/\ Called("PoaRoundRobinBySlot", "validate")
     /\ op.header.height > 0
     /\ op.header.consensus_digest.slot >= 1
     /\ Len(engine.authorities) > 0)
    => LET d == op.header.consensus_digest
           n == Len(engine.authorities)
       IN  /\ op.result.status = "returned"
           /\ op.result.value <=>
                (/\ d.signature = engine.authorities[((d.slot - 1) % n) + 1]
                 /\ d.slot > op.parent_digest.slot)

\* C1 witness: parent slot 1, child slot 5 signed by the authority of slot 5
\* is accepted (a skipped slot).
C1_Witness ==
    /\ Called("PoaRoundRobinBySlot", "validate")
    /\ engine.authorities = <<"Alice", "Bob">>
    /\ op.header.height > 0
    /\ op.parent_digest.slot = 1
    /\ op.header.consensus_digest = [slot |-> 5, signature |-> "Alice"]
    /\ op.result = Returned(TRUE)

\* C2: PoaRoundRobinByHeight.validate, for every height h > 0 and non-empty
\* authority list of length n, returns true iff the digest is
\* authorities[(h-1) mod n], whatever the parent digest.
C2_ByHeightValidateIff ==
    (/\ Called("PoaRoundRobinByHeight", "validate")
     /\ op.header.height > 0
     /\ Len(engine.authorities) > 0)
    => LET n == Len(engine.authorities)
       IN  /\ op.result.status = "returned"
           /\ op.result.value <=>
                (op.header.consensus_digest =
                   engine.authorities[((op.header.height - 1) % n) + 1])
           /\ (engine.authorities = <<"Alice", "Bob">> /\ op.header.height = 1)
                => (op.result.value <=> op.header.consensus_digest = "Alice")
           /\ (engine.authorities = <<"Alice", "Bob">> /\ op.header.height = 2)
                => (op.result.value <=> op.header.consensus_digest = "Bob")

\* C2 witness: authorities [Alice, Bob], height 2 signed by Bob is valid.
C2_Witness ==
    /\ Called("PoaRoundRobinByHeight", "validate")
    /\ engine.authorities = <<"Alice", "Bob">>
    /\ op.header.height = 2
    /\ op.header.consensus_digest = "Bob"
    /\ op.result = Returned(TRUE)

\* C3 (as stated): for every engine, validate returns true for every header
\* of height 0, whatever its digest, state_root, parent digest and the
\* engine's configuration.
C3_GenesisAlwaysValid ==
    (op.fn = "validate" /\ op.header.height = 0) => op.result = Returned(TRUE)

\* C3 (amended): the two round-robin engines accept every header of height
\* 0; the other engines apply their ordinary rule at height 0: the dictator
\* test, membership in the authority list, the inner engine's result and an
\* even state_root, and the PoA path of AlternatingPowPoa.
C3_GenesisPerEngine ==
    (op.fn = "validate" /\ op.header.height = 0)
    => LET h == op.header
       IN  CASE engine.kind \in {"PoaRoundRobinByHeight", "PoaRoundRobinBySlot"} ->
                  op.result = Returned(TRUE)
             [] engine.kind = "DictatorConsensus" ->
                  op.result = Returned(h.consensus_digest = engine.dictator)
             [] engine.kind = "SimplePoa" ->
                  op.result = Returned(Contains(engine.authorities,
                                                h.consensus_digest))
             [] engine.kind = "EvenOnly" ->
                  IF engine.inner.kind \in {"PoaRoundRobinByHeight",
                                            "PoaRoundRobinBySlot"}
                  THEN op.result = Returned(IsEven(h.state_root))
                  ELSE op.result =
                         Returned(/\ Inner_validate(engine.inner,
                                                    op.parent_digest, h).value
                                  /\ IsEven(h.state_root))
             [] engine.kind = "AlternatingPowPoa" ->
                  op.result = Returned(/\ h.consensus_digest.tag = "Poa"
                                       /\ Contains(engine.poa.authorities,
                                                   h.consensus_digest.authority))

\* C3 witness: a round-robin-by-slot engine with no authorities accepts a
\* genesis header whose slot is 0.
C3_Witness ==
    /\ Called("PoaRoundRobinBySlot", "validate")
    /\ engine.authorities = <<>>
    /\ op.header.height = 0
    /\ op.header.consensus_digest.slot = 0
    /\ op.result = Returned(TRUE)

\* C4: EvenOnly.validate(parent_digest, header) equals
\* inner.validate(parent_digest, header) AND (header.state_root is even).
C4_EvenOnlyValidate ==
    Called("EvenOnly", "validate")
    => LET inner_result == Inner_validate(engine.inner, op.parent_digest,
                                          op.header)
       IN  /\ calls = <<InnerCall(engine.inner.kind, "validate",
                                  op.parent_digest, op.header)>>
           /\ IF inner_result.status = "panicked"
              THEN op.result = Panicked
              ELSE /\ op.result = Returned(inner_result.value
                                           /\ IsEven(op.header.state_root))
                   /\ ~inner_result.value => op.result = Returned(FALSE)
                   /\ ~IsEven(op.header.state_root) => op.result = Returned(FALSE)
                   /\ inner_result.value
                        => op.result = Returned(IsEven(op.header.state_root))

\* C4 witness: a proof-of-work header the inner engine accepts, with an odd
\* state_root, is rejected by EvenOnly.
C4_Witness ==
    /\ Called("EvenOnly", "validate")
    /\ engine.inner.kind = "Pow"
    /\ Pow_validate(engine.inner, op.parent_digest, op.header) = Returned(TRUE)
    /\ ~IsEven(op.header.state_root)
    /\ op.result = Returned(FALSE)

\* C5: EvenOnly.seal returns None for an odd state_root without invoking the
\* inner engine's seal; for an even state_root it returns exactly what
\* inner.seal(parent_digest, partial_header) returns; it never returns a
\* header with an odd state_root.
C5_EvenOnlySeal ==
    Called("EvenOnly", "seal")
    => /\ ~IsEven(op.header.state_root)
            => (op.result = None /\ calls = <<>>)
       /\ IsEven(op.header.state_root)
            => /\ op.result = Inner_seal(engine.inner, overflow_checks,
                                         op.parent_digest, op.header)
               /\ calls = <<InnerCall(engine.inner.kind, "seal",
                                      op.parent_digest, op.header)>>
       /\ (op.result.status = "returned" /\ op.result.some)
            => IsEven(op.result.header.state_root)

\* C5 witness: an odd state_root over an inner engine whose own seal would
\* fail (round robin by height without authorities): None, no inner call.
C5_Witness ==
    /\ Called("EvenOnly", "seal")
    /\ engine.inner.kind = "PoaRoundRobinByHeight"
    /\ engine.inner.authorities = <<>>
    /\ op.header.height > 0
    /\ ~IsEven(op.header.state_root)
    /\ op.result = None
    /\ calls = <<>>

\* C6: AlternatingPowPoa.validate dispatches on height parity: a Pow digest
\* at an even height and a Poa digest at an odd height are rejected without
\* a call on either inner engine; with the matching tag the result is the
\* selected inner engine's validate on the header rebuilt with the unwrapped
\* digest, and it does not depend on the parent digest passed in.
C6_AlternatingValidate ==
    Called("AlternatingPowPoa", "validate")
    => LET h == op.header
           d == h.consensus_digest
           poa_header == Header(h.parent, h.height, h.state_root,
                                h.extrinsics_root, d.authority)
           pow_header == Header(h.parent, h.height, h.state_root,
                                h.extrinsics_root, d.nonce)
       IN  /\ (IsEven(h.height) /\ d.tag = "Pow")
                => (op.result = Returned(FALSE) /\ calls = <<>>)
           /\ (~IsEven(h.height) /\ d.tag = "Poa")
                => (op.result = Returned(FALSE) /\ calls = <<>>)
           /\ (IsEven(h.height) /\ d.tag = "Poa")
                => /\ Len(calls) = 1
                   /\ calls[1].kind = "SimplePoa"
                   /\ calls[1].fn = "validate"
                   /\ calls[1].header = poa_header
                   /\ op.result = SimplePoa_validate(engine.poa,
                                     calls[1].parent_digest, poa_header)
           /\ (~IsEven(h.height) /\ d.tag = "Pow")
                => /\ Len(calls) = 1
                   /\ calls[1].kind = "Pow"
                   /\ calls[1].fn = "validate"
                   /\ calls[1].header = pow_header
                   /\ op.result = Pow_validate(engine.pow,
                                     calls[1].parent_digest, pow_header)
           /\ \A other \in PowOrPoaDigest :
                AlternatingPowPoa_validate(engine, other, h).result = op.result

\* C6 witness: an odd height with a Pow digest the proof-of-work engine
\* accepts.
C6_Witness ==
    /\ Called("AlternatingPowPoa", "validate")
    /\ ~IsEven(op.header.height)
    /\ op.header.consensus_digest.tag = "Pow"
    /\ Len(calls) = 1
    /\ calls[1].kind = "Pow"
    /\ op.result = Returned(TRUE)

\* C7: in AlternatingPowPoa every header returned by seal, and every header
\* accepted by validate, carries a Poa digest at an even height and a Pow
\* digest at an odd height.
C7_TagByParity ==
    LET TagFor(height) == IF IsEven(height) THEN "Poa" ELSE "Pow"
    IN  /\ (/\ Called("AlternatingPowPoa", "seal")
            /\ op.result.status = "returned"
            /\ op.result.some)
           => op.result.header.consensus_digest.tag
                = TagFor(op.result.header.height)
        /\ (Called("AlternatingPowPoa", "validate") /\ op.result = Returned(TRUE))
           => op.header.consensus_digest.tag = TagFor(op.header.height)

\* C7 witness: seal at an odd height returns a header with a Pow digest.
C7_Witness ==
    /\ Called("AlternatingPowPoa", "seal")
    /\ ~IsEven(op.header.height)
    /\ op.result.status = "returned"
    /\ op.result.some
    /\ op.result.header.consensus_digest.tag = "Pow"

\* C8: AlternatingPowPoa.seal is total: when the inner engine selected by
\* height parity cannot seal (the PoA engine has no authorities and the
\* height is even), seal returns None instead of failing.
C8_AlternatingSealTotal ==
    Called("AlternatingPowPoa", "seal")
    => /\ op.result.status = "returned"
       /\ (IsEven(op.header.height) /\ Len(engine.poa.authorities) = 0)
            => op.result = None

\* C9: PoaRoundRobinBySlot.validate on a header of height > 0 whose digest
\* has slot 0 returns false; it does not fail while computing slot - 1.
C9_SlotZeroRejected ==
    (/\ Called("PoaRoundRobinBySlot", "validate")
     /\ op.header.height > 0
     /\ op.header.consensus_digest.slot = 0)
    => op.result = Returned(FALSE)

\* C10: PoaRoundRobinByHeight with an empty authority list is total at every
\* height > 0: validate returns false and seal returns None.
C10_ByHeightEmptyTotal ==
    (/\ engine.kind = "PoaRoundRobinByHeight"
     /\ Len(engine.authorities) = 0
     /\ op.fn # "none"
     /\ op.header.height > 0)
    => /\ op.fn = "validate" => op.result = Returned(FALSE)
       /\ op.fn = "seal" => op.result = None

\* C11: PoaRoundRobinBySlot.seal returns None when the partial header's
\* height is 0 or the authority list is empty; otherwise it returns a header
\* whose digest has slot = parent_digest.slot + 1 and
\* signature = authorities[(slot-1) mod n].
C11_BySlotSeal ==
    Called("PoaRoundRobinBySlot", "seal")
    => IF op.header.height = 0 \/ Len(engine.authorities) = 0
       THEN op.result = None
       ELSE LET n == Len(engine.authorities)
                slot == op.parent_digest.slot + 1
            IN  /\ op.result.status = "returned"
                /\ op.result.some
                /\ op.result.header.consensus_digest =
                     [slot |-> slot,
                      signature |-> engine.authorities[((slot - 1) % n) + 1]]

\* C12: PoaRoundRobinByHeight.seal returns None for a partial header of
\* height 0; for height h > 0 with a non-empty authority list of length n it
\* returns a header whose digest is authorities[(h-1) mod n], whatever the
\* parent digest is ([Alice, Bob]: 1 -> Alice, 2 -> Bob, 3 -> Alice).
C12_ByHeightSeal ==
    Called("PoaRoundRobinByHeight", "seal")
    => LET h == op.header.height
           n == Len(engine.authorities)
       IN  /\ h = 0 => op.result = None
           /\ (h > 0 /\ n > 0)
                => /\ op.result.status = "returned"
                   /\ op.result.some
                   /\ op.result.header.consensus_digest =
                        engine.authorities[((h - 1) % n) + 1]
           /\ (h > 0 /\ engine.authorities = <<"Alice", "Bob">>)
                => /\ h \in {1, 3} => op.result.header.consensus_digest = "Alice"
                   /\ h = 2 => op.result.header.consensus_digest = "Bob"

\* C12 witness: [Alice, Bob] at height 3 seals with Alice.
C12_Witness ==
    /\ Called("PoaRoundRobinByHeight", "seal")
    /\ engine.authorities = <<"Alice", "Bob">>
    /\ op.header.height = 3
    /\ op.result.some
    /\ op.result.header.consensus_digest = "Alice"

\* C13: DictatorConsensus.validate returns true iff the header's digest
\* equals the configured dictator, at any height and for any parent digest.
C13_DictatorValidateIff ==
    Called("DictatorConsensus", "validate")
    => op.result = Returned(op.header.consensus_digest = engine.dictator)

\* C13 witness: a genesis header signed by another authority is rejected.
C13_Witness ==
    /\ Called("DictatorConsensus", "validate")
    /\ op.header.height = 0
    /\ op.header.consensus_digest # engine.dictator
    /\ op.result = Returned(FALSE)

\* C14: DictatorConsensus.seal returns Some for every partial header
\* (including height 0) and every parent digest, and the returned header's
\* digest is always the configured dictator.
C14_DictatorSealAlways ==
    Called("DictatorConsensus", "seal")
    => /\ op.result.status = "returned"
       /\ op.result.some
       /\ op.result.header.consensus_digest = engine.dictator

\* C14 witness: a genesis partial header is sealed with the dictator.
C14_Witness ==
    /\ Called("DictatorConsensus", "seal")
    /\ op.header.height = 0
    /\ op.result.some
    /\ op.result.header.consensus_digest = engine.dictator

\* The set of elements of a list
Elements(list) == {list[i] : i \in 1..Len(list)}

\* C15: SimplePoa.validate returns true iff the header's digest is a member
\* of the authority list; the result does not depend on the order of the
\* list, on the parent digest, or on the header's height.
C15_SimplePoaValidateIff ==
    Called("SimplePoa", "validate")
    => /\ op.result =
            Returned(op.header.consensus_digest \in Elements(engine.authorities))
       /\ \A list \in AuthorityLists, pd \in ConsensusAuthority,
             height \in 0..MaxHeight :
             Elements(list) = Elements(engine.authorities)
             => SimplePoa_validate([kind |-> "SimplePoa", authorities |-> list],
                                   pd, [op.header EXCEPT !.height = height])
                  = op.result

\* C15 witness: the second authority of the list signs and is accepted.
C15_Witness ==
    /\ Called("SimplePoa", "validate")
    /\ engine.authorities = <<"Alice", "Bob">>
    /\ op.header.consensus_digest = "Bob"
    /\ op.result = Returned(TRUE)

\* C16: SimplePoa.seal returns None iff the authority list is empty;
\* otherwise it returns a header stamped with the first authority of the
\* list, for every partial header and parent digest.
C16_SimplePoaSeal ==
    Called("SimplePoa", "seal")
    => /\ op.result.status = "returned"
       /\ op.result = None <=> Len(engine.authorities) = 0
       /\ Len(engine.authorities) > 0
            => /\ op.result.some
               /\ op.result.header.consensus_digest = engine.authorities[1]

\* C16 witness: the list [Bob, Alice] seals with Bob.
C16_Witness ==
    /\ Called("SimplePoa", "seal")
    /\ engine.authorities = <<"Bob", "Alice">>
    /\ op.result.some
    /\ op.result.header.consensus_digest = "Bob"

\* ---------------------------------------------------- fork-choice claims
ForkCalled(fn) == fork.fn = fn

\* first_chain_is_better of the rule of the recorded call
FirstChainIsBetter(rule, checks, chain_1, chain_2) ==
    CASE rule = "LongestChainRule" ->
           LongestChainRule_first_chain_is_better(chain_1, chain_2)
      [] rule = "HeaviestChainRule" ->
           HeaviestChainRule_first_chain_is_better(checks, chain_1, chain_2)
      [] rule = "MostBlocksWithEvenHash" ->
           MostBlocksWithEvenHash_first_chain_is_better(chain_1, chain_2)

\* C17: for each fork-choice rule, first_chain_is_better is a strict,
\* asymmetric relation over arbitrary header sequences:
\* first_chain_is_better(c, c) is false for every chain c, and
\* first_chain_is_better(a, b) and first_chain_is_better(b, a) are never
\* both true.
C17_StrictAsymmetric ==
    ForkCalled("first_chain_is_better")
    => LET a == fork.args[1]
           b == fork.args[2]
           reverse == FirstChainIsBetter(fork.rule, overflow_checks, b, a)
       IN  /\ fork.result.status = "returned"
           /\ a = b => fork.result = Returned(FALSE)
           /\ ~(fork.result.value /\ reverse.value)

\* C18: for each rule and every non-empty candidate list, best_chain returns
\* one of the candidates, unmodified, and no candidate is better than it
\* under the rule's first_chain_is_better.
C18_BestChainMaximal ==
    (ForkCalled("best_chain") /\ Len(fork.args) > 0)
    => /\ fork.result.status = "returned"
       /\ \E i \in 1..Len(fork.args) : fork.args[i] = fork.result.chain
       /\ \A i \in 1..Len(fork.args) :
            FirstChainIsBetter(fork.rule, overflow_checks, fork.args[i],
                               fork.result.chain) = Returned(FALSE)

\* The score a rule gives a chain: its length, its accumulated work as the
\* rule computes it, the number of its headers with an even hash.
Score(rule, checks, chain) ==
    CASE rule = "LongestChainRule" -> Len(chain)
      [] rule = "HeaviestChainRule" -> TotalWork(chain, checks).value
      [] rule = "MostBlocksWithEvenHash" ->
           Cardinality({i \in 1..Len(chain) : Hash(chain[i]) % 2 = 0})

\* C19: when several candidates share the maximal score under a rule,
\* best_chain returns the one that occurs first in the candidate list.
C19_TiesFirstOccurrence ==
    (/\ ForkCalled("best_chain")
     /\ Len(fork.args) > 0
     /\ fork.result.status = "returned")
    => LET score(i) == Score(fork.rule, overflow_checks, fork.args[i])
           first == CHOOSE i \in 1..Len(fork.args) :
                      /\ \A j \in 1..Len(fork.args) : score(j) <= score(i)
                      /\ \A j \in 1..(i - 1) : score(j) < score(i)
       IN  fork.result.chain = fork.args[first]

\* C20: first_chain_is_better(c1, c2) holds exactly when
\* score(c1) > score(c2), where score is the number of headers for
\* LongestChainRule and the number of headers with an even hash for
\* MostBlocksWithEvenHash; best_chain returns a candidate of maximal score.
C20_ScoreOrder ==
    fork.rule \in {"LongestChainRule", "MostBlocksWithEvenHash"}
    => LET score(chain) == Score(fork.rule, overflow_checks, chain)
       IN  /\ ForkCalled("first_chain_is_better")
                => fork.result =
                     Returned(score(fork.args[1]) > score(fork.args[2]))
           /\ (ForkCalled("best_chain") /\ Len(fork.args) > 0)
                => /\ fork.result.status = "returned"
                   /\ \E i \in 1..Len(fork.args) :
                        fork.args[i] = fork.result.chain
                   /\ \A i \in 1..Len(fork.args) :
                        score(fork.args[i]) <= score(fork.result.chain)

\* C20 witness: under MostBlocksWithEvenHash a chain of two even-hash
\* headers is better than a longer chain of three odd-hash headers.
C20_Witness ==
    /\ ForkCalled("first_chain_is_better")
    /\ fork.rule = "MostBlocksWithEvenHash"
    /\ Len(fork.args[1]) = 2
    /\ Len(fork.args[2]) = 3
    /\ \A i \in 1..2 : Hash(fork.args[1][i]) % 2 = 0
    /\ \A i \in 1..3 : Hash(fork.args[2][i]) % 2 = 1
    /\ fork.result = Returned(TRUE)

\* The work of a chain as a number, without the width of the accumulator.
RECURSIVE TrueWorkFrom(_, _)
TrueWorkFrom(chain, i) ==
    IF i > Len(chain) THEN 0 ELSE Work(chain[i]) + TrueWorkFrom(chain, i + 1)

TrueWork(chain) == TrueWorkFrom(chain, 1)

\* The chains passed to the recorded call
ForkChains ==
    IF ForkCalled("first_chain_is_better")
    THEN {fork.args[1], fork.args[2]}
    ELSE {fork.args[i] : i \in 1..Len(fork.args)}

\* C21: HeaviestChainRule scores a chain as the sum over its headers of
\* max(0, THRESHOLD - hash(header)); the sum never overflows, wraps or fails
\* for any chain: the call returns, and the score of every chain passed is
\* its true sum, or the true sum saturated at the accumulator's maximum.
C21_SumNeverOverflows ==
    (fork.rule = "HeaviestChainRule"
     /\ (ForkCalled("best_chain") => Len(fork.args) > 0))
    => /\ fork.result.status = "returned"
       /\ \A chain \in ForkChains :
            LET work == TotalWork(chain, overflow_checks)
            IN  /\ work.ok
                /\ \/ work.value = TrueWork(chain)
                   \/ /\ TrueWork(chain) > MaxU64
                      /\ work.value = MaxU64

\* best_chain of the rule of the recorded call
BestChain(rule, checks, candidate_chains) ==
    CASE rule = "LongestChainRule" ->
           LongestChainRule_best_chain(candidate_chains)
      [] rule = "HeaviestChainRule" ->
           HeaviestChainRule_best_chain(checks, candidate_chains)
      [] rule = "MostBlocksWithEvenHash" ->
           MostBlocksWithEvenHash_best_chain(candidate_chains)

\* chain_1 is chain_2 with one more header appended
Extends(chain_1, chain_2) ==
    /\ Len(chain_1) = Len(chain_2) + 1
    /\ \A i \in 1..Len(chain_2) : chain_1[i] = chain_2[i]

\* Every header of the chain hashes above THRESHOLD
AllAboveThreshold(chain) ==
    \A i \in 1..Len(chain) : Hash(chain[i]) > THRESHOLD

\* C22: the HeaviestChainRule score is monotone under appending headers:
\* a chain is never better than the chain it is a prefix of, the longer
\* chain is better when the appended header hashes below THRESHOLD, a chain
\* whose headers all hash above THRESHOLD is never better than any chain,
\* and a chain with a header below THRESHOLD is better than it.
C22_MonotoneUnderAppend ==
    (fork.rule = "HeaviestChainRule" /\ ForkCalled("first_chain_is_better"))
    => LET chain_1 == fork.args[1]
           chain_2 == fork.args[2]
       IN  /\ Extends(chain_2, chain_1) => fork.result = Returned(FALSE)
           /\ (Extends(chain_1, chain_2)
               /\ Hash(chain_1[Len(chain_1)]) < THRESHOLD)
                => fork.result = Returned(TRUE)
           /\ AllAboveThreshold(chain_1) => fork.result = Returned(FALSE)
           /\ (AllAboveThreshold(chain_2)
               /\ \E i \in 1..Len(chain_1) : Hash(chain_1[i]) < THRESHOLD)
                => fork.result = Returned(TRUE)

\* C23: whenever chain X has more headers than chain Y while Y has strictly
\* more accumulated work than X, LongestChainRule selects X and
\* HeaviestChainRule selects Y, both in first_chain_is_better and in
\* best_chain over [X, Y].
C23_LongestVsHeaviest ==
    /\ ForkCalled("first_chain_is_better")
         => LET chain_1 == fork.args[1]
                chain_2 == fork.args[2]
            IN  /\ (fork.rule = "LongestChainRule"
                    /\ Len(chain_1) > Len(chain_2))
                     => fork.result = Returned(TRUE)
                /\ (fork.rule = "HeaviestChainRule"
                    /\ Len(chain_1) > Len(chain_2)
                    /\ TrueWork(chain_2) > TrueWork(chain_1))
                     => fork.result = Returned(FALSE)
                /\ (fork.rule = "HeaviestChainRule"
                    /\ Len(chain_2) > Len(chain_1)
                    /\ TrueWork(chain_1) > TrueWork(chain_2))
                     => fork.result = Returned(TRUE)
    /\ (ForkCalled("best_chain") /\ Len(fork.args) = 2)
         => LET X == fork.args[1]
                Y == fork.args[2]
            IN  (Len(X) > Len(Y) /\ TrueWork(Y) > TrueWork(X))
                => /\ fork.rule = "LongestChainRule"
                        => fork.result = ChainReturned(X)
                   /\ fork.rule = "HeaviestChainRule"
                        => fork.result = ChainReturned(Y)

\* C24: best_chain is idempotent for every rule: for every non-empty
\* candidate list, best_chain([best_chain(candidates)]) returns the same
\* chain as best_chain(candidates).
C24_BestChainIdempotent ==
    (ForkCalled("best_chain") /\ Len(fork.args) > 0)
    => /\ fork.result.status = "returned"
       /\ BestChain(fork.rule, overflow_checks, <<fork.result.chain>>)
            = fork.result

\* --------------------------------------------------- digital cash claims
\* The recorded transition is a Transfer
Transferred == tx.kind = "Transfer"

\* The serials of the bills in a list
Serials(bills) == {bills[i].serial : i \in 1..Len(bills)}

\* The amounts of a list of bills added up, as a number
RECURSIVE ListAmountFrom(_, _)
ListAmountFrom(bills, i) ==
    IF i > Len(bills) THEN 0
    ELSE bills[i].amount + ListAmountFrom(bills, i + 1)

ListAmount(bills) == ListAmountFrom(bills, 1)

\* The amounts of a set of bills added up, as a number
RECURSIVE TotalAmount(_)
TotalAmount(bills) ==
    IF bills = {} THEN 0
    ELSE LET b == CHOOSE x \in bills : TRUE
         IN  b.amount + TotalAmount(bills \ {b})

\* C25: in every state reachable from the empty state by Mint and Transfer
\* transitions, no two circulating bills share a serial number and every
\* circulating bill's serial is below next_serial.
C25_SerialsUnique ==
    /\ \A a \in cash.bills, b \in cash.bills : a.serial = b.serial => a = b
    /\ \A b \in cash.bills : b.serial < cash.next_serial

\* The received bills carry the serials the state assigns next, in order
\* of the receives: next_serial, next_serial + 1, ...
NextSerialsInOrder(state, receives) ==
    \A i \in 1..Len(receives) :
        receives[i].serial = state.next_serial + (i - 1)

\* C26: a Transfer whose received bills do not carry the serial numbers the
\* state assigns next, in order of the receives, is rejected: the resulting
\* state equals the starting state.
C26_WrongSerialRejected ==
    (Transferred /\ ~NextSerialsInOrder(tx.start, tx.receives))
    => (tx.status = "returned" /\ cash = tx.start)

\* C27: a Transfer whose total received amount exceeds its total spent
\* amount leaves the state unchanged, and the total amount of the
\* circulating bills never increases through a Transfer.
C27_NoMoneyCreated ==
    Transferred
    => /\ tx.status = "returned"
       /\ ListAmount(tx.receives) > ListAmount(tx.spends) => cash = tx.start
       /\ TotalAmount(cash.bills) <= TotalAmount(tx.start.bills)

\* C27 witness: a circulating bill of one unit is spent for a bill of
\* u64::MAX units carrying the next serial; nothing changes.
C27_Witness ==
    /\ Transferred
    /\ Len(tx.spends) = 1
    /\ tx.spends[1] \in tx.start.bills
    /\ tx.spends[1].amount = 1
    /\ tx.receives = <<Bill("Bob", MaxU64, tx.start.next_serial)>>
    /\ tx.start.next_serial < MaxU64
    /\ tx.status = "returned"
    /\ cash = tx.start

\* C28: a Transfer that spends any bill not in circulation with exactly
\* that owner, amount and serial leaves the state unchanged.
C28_UnknownSpendRejected ==
    (Transferred /\ \E i \in 1..Len(tx.spends) :
                       tx.spends[i] \notin tx.start.bills)
    => (tx.status = "returned" /\ cash = tx.start)

\* C28 witness: the only bill spent has the serial and the owner of a
\* circulating bill of one unit but claims u64::MAX units, which one bill
\* with the next serial receives; nothing changes.
C28_Witness ==
    /\ Transferred
    /\ Len(tx.spends) = 1
    /\ tx.spends[1].amount = MaxU64
    /\ [tx.spends[1] EXCEPT !.amount = 1] \in tx.start.bills
    /\ tx.spends[1] \notin tx.start.bills
    /\ tx.receives = <<Bill("Bob", MaxU64, tx.start.next_serial)>>
    /\ tx.start.next_serial \notin {tx.spends[1].serial, MaxU64}
    /\ tx.status = "returned"
    /\ cash = tx.start

\* C29: a Transfer in which any serial number occurs more than once across
\* spends and receives together leaves the state unchanged.
C29_RepeatedSerialRejected ==
    (Transferred
     /\ LET all == tx.spends \o tx.receives
        IN  \E i \in 1..Len(all), j \in 1..Len(all) :
               i # j /\ all[i].serial = all[j].serial)
    => (tx.status = "returned" /\ cash = tx.start)

\* C29 witness: the same circulating bill of one unit is spent twice for
\* one received bill of one unit with the next serial; nothing changes.
C29_Witness ==
    /\ Transferred
    /\ Len(tx.spends) = 2
    /\ tx.spends[1] = tx.spends[2]
    /\ tx.spends[1] \in tx.start.bills
    /\ tx.spends[1].amount = 1
    /\ tx.receives = <<Bill("Bob", 1, tx.start.next_serial)>>
    /\ tx.start.next_serial \notin {tx.spends[1].serial, MaxU64}
    /\ tx.status = "returned"
    /\ cash = tx.start

\* The Transfer passes every check of next_state
PassesEveryCheck(state, spends, receives) ==
    /\ MaxU64 \notin Serials(receives)
    /\ Cardinality(Serials(spends \o receives)) = Len(spends) + Len(receives)
    /\ \A i \in 1..Len(receives) : receives[i].amount # 0
    /\ Len(spends) > 0
    /\ \A i \in 1..Len(spends) : spends[i] \in state.bills
    /\ ListAmount(spends) <= MaxU64
    /\ ListAmount(receives) <= ListAmount(spends)

\* C30: a Transfer that passes every check removes exactly the spent bills
\* from circulation, adds every received bill, leaves all other bills
\* untouched and advances next_serial by the number of received bills;
\* with an empty receives list the spent bills are destroyed and
\* next_serial is unchanged.
C30_TransferEffect ==
    (Transferred /\ PassesEveryCheck(tx.start, tx.spends, tx.receives))
    => LET spent == {tx.spends[i] : i \in 1..Len(tx.spends)}
           received == {tx.receives[i] : i \in 1..Len(tx.receives)}
       IN  /\ tx.status = "returned"
           /\ cash.bills = (tx.start.bills \ spent) \cup received
           /\ cash.next_serial = tx.start.next_serial + Len(tx.receives)
           /\ tx.receives = <<>>
                => cash = State(tx.start.bills \ spent, tx.start.next_serial)

\* C30 witness: of two circulating bills the one of u64::MAX units is spent
\* for two bills of one unit with the next two serials; the other bill
\* stays and next_serial has advanced by two.
C30_Witness ==
    /\ Transferred
    /\ Cardinality(tx.start.bills) = 2
    /\ Len(tx.spends) = 1
    /\ tx.spends[1] \in tx.start.bills
    /\ tx.spends[1].amount = MaxU64
    /\ tx.receives = <<Bill("Bob", 1, tx.start.next_serial),
                       Bill("Bob", 1, tx.start.next_serial + 1)>>
    /\ cash.bills = (tx.start.bills \ {tx.spends[1]})
                      \cup {tx.receives[1], tx.receives[2]}
    /\ Cardinality(cash.bills) = 3
    /\ cash.next_serial = tx.start.next_serial + 2

\* The recorded transition is a Mint
Minted == tx.kind = "Mint"

\* C31: Mint with amount > 0 adds exactly one bill, owned by the minter,
\* with that amount and the serial next_serial had before the mint,
\* increments next_serial by one and leaves every existing bill untouched;
\* Mint with amount 0 leaves the state unchanged.
C31_MintEffect ==
    Minted
    => LET minted == Bill(tx.minter, tx.amount, tx.start.next_serial)
       IN  /\ tx.status = "returned"
           /\ tx.amount = 0 => cash = tx.start
           /\ tx.amount > 0
                => /\ cash.bills = tx.start.bills \cup {minted}
                   /\ Cardinality(cash.bills)
                        = Cardinality(tx.start.bills) + 1
                   /\ cash.next_serial = tx.start.next_serial + 1

\* C37: a Transfer whose spent amounts, or whose received amounts, sum to
\* more than u64::MAX is rejected with the state unchanged; no Transfer
\* wraps around or fails while adding amounts.
C37_AmountOverflowRejected ==
    Transferred
    => /\ tx.status = "returned"
       /\ (ListAmount(tx.spends) > MaxU64 \/ ListAmount(tx.receives) > MaxU64)
            => cash = tx.start

\* C37 witness: two circulating bills of one unit and of u64::MAX units are
\* spent for one bill of one unit with the next serial; the spent amounts
\* exceed u64::MAX and nothing changes.
C37_Witness ==
    /\ Transferred
    /\ Len(tx.spends) = 2
    /\ tx.spends[1] \in tx.start.bills
    /\ tx.spends[2] \in tx.start.bills
    /\ tx.spends[1].amount = 1
    /\ tx.spends[2].amount = MaxU64
    /\ tx.receives = <<Bill("Bob", 1, tx.start.next_serial)>>
    /\ tx.status = "returned"
    /\ cash = tx.start

\* C38: a Transfer with an empty spends list, or with any received bill of
\* amount 0, leaves the state unchanged, and no bill of amount 0 is in
\* circulation in any state reached from the empty state.
C38_NoZeroBill ==
    /\ (Transferred
        /\ (tx.spends = <<>>
            \/ \E i \in 1..Len(tx.receives) : tx.receives[i].amount = 0))
         => (tx.status = "returned" /\ cash = tx.start)
    /\ \A b \in cash.bills : b.amount # 0

\* C38 witness: a circulating bill of u64::MAX units is spent for a bill of
\* one unit and a bill of amount 0 with the next two serials; nothing
\* changes.
C38_Witness ==
    /\ Transferred
    /\ Len(tx.spends) = 1
    /\ tx.spends[1] \in tx.start.bills
    /\ tx.spends[1].amount = MaxU64
    /\ tx.receives = <<Bill("Bob", 1, tx.start.next_serial),
                       Bill("Bob", 0, tx.start.next_serial + 1)>>
    /\ tx.status = "returned"
    /\ cash = tx.start

\* ------------------------------------------------ seal claims, all engines
\* C34: PoaRoundRobinBySlot.seal never wraps or fails in its slot
\* arithmetic: it does not abort, and every Some result has a slot strictly
\* greater than the parent's slot, also when the parent's slot is u64::MAX.
C34_SlotNeverWraps ==
    Called("PoaRoundRobinBySlot", "seal")
    => /\ op.result.status = "returned"
       /\ op.result.some
            => op.result.header.consensus_digest.slot > op.parent_digest.slot

\* validate of an engine, by its kind
EngineValidate(self, parent_digest, header) ==
    IF self.kind = "EvenOnly"
    THEN EvenOnly_validate(self, parent_digest, header).result
    ELSE Inner_validate(self, parent_digest, header)

\* The engines C35 is about: DictatorConsensus, and SimplePoa and the two
\* round-robin engines with a non-empty authority list
SealsAndValidates(self) ==
    \/ self.kind = "DictatorConsensus"
    \/ /\ self.kind \in {"SimplePoa", "PoaRoundRobinByHeight",
                         "PoaRoundRobinBySlot"}
       /\ Len(self.authorities) > 0

\* The engine that signs: the engine itself, or the one EvenOnly wraps
Signer == IF engine.kind = "EvenOnly" THEN engine.inner ELSE engine

\* C35: for DictatorConsensus, SimplePoa, PoaRoundRobinByHeight and
\* PoaRoundRobinBySlot with a non-empty authority list, and EvenOnly
\* wrapping any of them, every header seal returns as Some is accepted by
\* validate of the same engine with the same parent digest, and under
\* PoaRoundRobinBySlot its slot is the parent's slot plus one.
C35_SealThenValidate ==
    (/\ engine.kind \in {"DictatorConsensus", "SimplePoa",
                         "PoaRoundRobinByHeight", "PoaRoundRobinBySlot",
                         "EvenOnly"}
     /\ SealsAndValidates(Signer)
     /\ op.fn = "seal"
     /\ op.result.some)
    => /\ EngineValidate(engine, op.parent_digest, op.result.header)
            = Returned(TRUE)
       /\ Signer.kind = "PoaRoundRobinBySlot"
            => op.result.header.consensus_digest.slot
                 = op.parent_digest.slot + 1

\* C36: every header returned by seal, in every engine, has the parent,
\* height, state_root and extrinsics_root of the partial header it was
\* given, and seal leaves the engine's configuration unchanged.
C36_SealFrame ==
    [][(op'.fn = "seal" /\ op'.result.some)
       => /\ op'.result.header.parent = op'.header.parent
          /\ op'.result.header.height = op'.header.height
          /\ op'.result.header.state_root = op'.header.state_root
          /\ op'.result.header.extrinsics_root = op'.header.extrinsics_root
          /\ engine' = engine]_vars

\* C36 witness: AlternatingPowPoa seals a partial header of height 3 and
\* state_root 1; the header returned has both, and a Pow digest.
C36_Witness ==
    /\ Called("AlternatingPowPoa", "seal")
    /\ op.header.height = 3
    /\ op.header.state_root = 1
    /\ op.result.some
    /\ op.result.header.height = 3
    /\ op.result.header.state_root = 1
    /\ op.result.header.consensus_digest.tag = "Pow"

\* ------------------------------------------------------ governance claims
\* The last governance action was a vote, in favor or against.
GovVote == gtx.kind \in {"VoteInFavor", "VoteAgainst"}

\* The user has a recorded vote on the proposal in the state.
VotedBy(state, proposal_id, user) ==
    \E i \in 1..Len(state.votes) :
        /\ state.votes[i].proposal_id = proposal_id
        /\ state.votes[i].user = user

\* The proposals of the state that carry the id.
ProposalsWithId(state, proposal_id) ==
    {i \in 1..Len(state.proposals) : state.proposals[i].id = proposal_id}

\* The state holds a proposal with the id whose deadline has not passed.
ExistsPending(state, proposal_id) ==
    \E i \in ProposalsWithId(state, proposal_id) :
        state.time_units_passed <= state.proposals[i].pending_until_time_unit

\* The state holds a proposal with the id whose deadline has passed.
ExistsExpired(state, proposal_id) ==
    \E i \in ProposalsWithId(state, proposal_id) :
        state.time_units_passed > state.proposals[i].pending_until_time_unit

\* The votes recorded on the proposal, in the order they were cast.
VotesOn(state, proposal_id) ==
    SelectSeq(state.votes, LAMBDA v : v.proposal_id = proposal_id)

\* s is a prefix of t.
IsPrefix(s, t) ==
    /\ Len(s) <= Len(t)
    /\ \A i \in 1..Len(s) : s[i] = t[i]

\* C32: in every reachable governance state each user has at most one
\* recorded vote per proposal, and a VoteInFavor or VoteAgainst by a user
\* who already has a recorded vote on that proposal, of either type, leaves
\* the state unchanged.
C32_OneVotePerUser ==
    /\ \A i, j \in 1..Len(gov.votes) :
          (/\ gov.votes[i].proposal_id = gov.votes[j].proposal_id
           /\ gov.votes[i].user = gov.votes[j].user) => i = j
    /\ (GovVote /\ VotedBy(gtx.start, gtx.proposal_id, gtx.user))
          => gov = gtx.start

\* C32 witness: a user who voted Aye on a proposal that is still pending
\* votes against it.
C32_Witness ==
    /\ gtx.kind = "VoteAgainst"
    /\ gtx.status = "returned"
    /\ ExistsPending(gtx.start, gtx.proposal_id)
    /\ \E i \in 1..Len(gtx.start.votes) :
          gtx.start.votes[i] = Vote(gtx.proposal_id, "Aye", gtx.user)
    /\ gov = gtx.start

\* C33: a vote on a proposal id that no proposal carries, or whose proposal
\* is past its deadline (time_units_passed > pending_until_time_unit),
\* leaves the state unchanged; a vote that changes the state appends one
\* vote on a proposal that exists and is pending; every recorded vote
\* names an existing proposal; and an action applied to a state leaves the
\* votes of every proposal expired in that state as they were.
C33_VoteOnlyWhilePending ==
    /\ (GovVote /\ ~ExistsPending(gtx.start, gtx.proposal_id))
          => gov = gtx.start
    /\ (GovVote /\ gov # gtx.start)
          => /\ ExistsPending(gtx.start, gtx.proposal_id)
             /\ Len(gov.votes) = Len(gtx.start.votes) + 1
             /\ gov.votes[Len(gov.votes)].proposal_id = gtx.proposal_id
    /\ \A i \in 1..Len(gov.votes) :
          ProposalsWithId(gov, gov.votes[i].proposal_id) # {}
    /\ \A i \in 1..Len(gtx.start.proposals) :
          ExistsExpired(gtx.start, gtx.start.proposals[i].id)
             => VotesOn(gov, gtx.start.proposals[i].id)
                   = VotesOn(gtx.start, gtx.start.proposals[i].id)

\* C33 witness: a user who has not voted on a proposal votes on it after
\* its deadline, when another user's vote on it is recorded; the state
\* stays as it was.
C33_Witness ==
    /\ GovVote
    /\ gtx.status = "returned"
    /\ ExistsExpired(gtx.start, gtx.proposal_id)
    /\ ~VotedBy(gtx.start, gtx.proposal_id, gtx.user)
    /\ VotesOn(gtx.start, gtx.proposal_id) # <<>>
    /\ gov = gtx.start

\* C39: OneTimeUnitPassed increases time_units_passed by exactly one and
\* leaves proposals and votes unchanged; no action decreases
\* time_units_passed; every action keeps the proposals and the votes of
\* the state it is applied to, unaltered and in place, at the front of the
\* new lists.
C39_TimeFrame ==
    /\ (gtx.kind = "OneTimeUnitPassed" /\ gtx.status = "returned")
          => /\ gov.time_units_passed = gtx.start.time_units_passed + 1
             /\ gov.proposals = gtx.start.proposals
             /\ gov.votes = gtx.start.votes
    /\ gov.time_units_passed >= gtx.start.time_units_passed
    /\ IsPrefix(gtx.start.proposals, gov.proposals)
    /\ IsPrefix(gtx.start.votes, gov.votes)

\* C39 witness: a time unit passes in a state that holds an expired
\* proposal and a vote.
C39_Witness ==
    /\ gtx.kind = "OneTimeUnitPassed"
    /\ gtx.status = "returned"
    /\ \E i \in 1..Len(gtx.start.proposals) :
          ExistsExpired(gtx.start, gtx.start.proposals[i].id)
    /\ Len(gtx.start.votes) > 0
    /\ gov.time_units_passed = gtx.start.time_units_passed + 1

====
